---- MODULE Spec2Model ----
(***************************************************************************)
(* Traffic-anomaly classifier of the DDoS detection dashboard              *)
(* (package detection): window aggregation, the five pattern detectors,    *)
(* the confidence/severity scorer, top-N source selection and the          *)
(* baseline adapter.                                                       *)
(*                                                                         *)
(* Specifications                                                          *)
(*  - Spec:     windows are collected, analysed once and (rarely) folded   *)
(*              into the baseline.                                         *)
(*  - SpecTop:  getTopIPs on a map of counts, for every iteration order.   *)
(*  - SpecBase: UpdateBaseline called repeatedly on collected windows.     *)
(*  - SpecRace: UpdateBaseline and AnalyzeTraffic calls running in         *)
(*              different goroutines on one Detector.                      *)
(*  - SpecEnt:  calculateEntropy on a map of counts.                       *)
(*  - SpecWs:   the /ws handlers and broadcastMessage on wsClients.        *)
(*                                                                         *)
(* Representation                                                          *)
(*  - A batch ([]models.TrafficRequest) is a sequence of runs.  A run      *)
(*    [proto, ip0, nips, path0, npaths, dur, n] stands for the records     *)
(*    with protocol proto and duration dur, n of them for every pair of a  *)
(*    source address in ip0 .. ip0+nips-1 and a request path in            *)
(*    path0 .. path0+npaths-1, in that order.  Addresses and paths are     *)
(*    numbered; path 0 is the empty path.                                  *)
(*  - A Go map is a function; ranging over it visits the keys in an order  *)
(*    the language leaves unspecified.  The runtime starts every range at  *)
(*    a random position, so an iteration order is the key order rotated    *)
(*    by a start offset chosen afresh for every range statement.           *)
(*  - float64 ratios of integers are exact rationals [n, d] with d > 0.    *)
(*    math.Log2 is computed in fixed point with FracBits fractional bits,  *)
(*    so entropies are integers in units of 2^-FracBits bit.               *)
(***************************************************************************)
EXTENDS Integers, Sequences, FiniteSets, TLC

VARIABLES
    requests,    \* the window handed to AnalyzeTraffic
    attacks,     \* what the last AnalyzeTraffic call on this window returned
    pc,          \* "idle": window being collected, "done": AnalyzeTraffic returned
    baseline,    \* Detector.baseline
    thresholds,  \* Detector.thresholds
    updates,     \* number of UpdateBaseline calls so far
    tally,       \* top-N specification: the map handed to getTopIPs
    topN,        \* top-N specification: its n
    topOut,      \* top-N specification: <<>> or <<the list returned>>
    calls,       \* race specification: the calls in flight on the Detector
    entropyOut,  \* entropy specification: <<>> or <<the value returned>>
    ws           \* client specification: wsClients and the goroutines using it

vars ==
    <<requests, attacks, pc, baseline, thresholds, updates, tally, topN, topOut, calls,
      entropyOut, ws>>

(***************************************************************************)
(* Bounds of the model                                                     *)
(***************************************************************************)
\* longest batch, in runs
MaxGroups == 2
\* number of UpdateBaseline calls explored
MaxUpdates == 1
\* largest start offset of a map iteration
MaxStart == 1
\* fractional bits of the fixed-point logarithm
FracBits == 10
\* top-N specification: largest N, number of addresses, largest count
MaxN == 3
MaxKeys == 4
MaxCount == 2
\* baseline specification: number of UpdateBaseline calls
MaxRounds == 3
\* race specification: number of concurrent UpdateBaseline calls
MaxCalls == 2
\* client specification: number of WebSocket connections
MaxConns == 2

(***************************************************************************)
(* Constants of the program                                                *)
(***************************************************************************)
PathEntropyMax == 2
SynMaxIPs == 10
SlowMinConnections == 100
SlowMaxIPs == 10
SlowFullScale == 300
UDPFloodThreshold == 2000
UDPFullScale == 5000
ZFullScale == 6
TopIPLimit == 20

(***************************************************************************)
(* Arithmetic helpers                                                      *)
(***************************************************************************)
RECURSIVE GCD(_, _)
GCD(a, b) ==
    IF b = 0 THEN a ELSE GCD(b, a % b)

Abs(a) ==
    IF a < 0 THEN -a ELSE a

\* the rational n/d in lowest terms, d > 0
Rat(n, d) ==
    LET g == GCD(Abs(n), d)
    IN  [n |-> n \div g, d |-> d \div g]

RatLt(a, b) ==
    a.n * b.d < b.n * a.d

RatGeq(a, b) ==
    ~RatLt(a, b)

RatOne == [n |-> 1, d |-> 1]

\* variant: the raw signal is returned unclamped
MinOne_Unclamped(x) ==
    x

\* math.Min(x, 1.0)
MinOne(x) ==
    IF RatLt(x, RatOne) THEN x ELSE RatOne

RECURSIVE SumSeq(_)
SumSeq(s) ==
    IF s = <<>> THEN 0 ELSE Head(s) + SumSeq(Tail(s))

RECURSIVE SumFn(_, _)
SumFn(f, keys) ==
    IF keys = {} THEN 0
    ELSE LET k == CHOOSE x \in keys : TRUE
         IN  f[k] + SumFn(f, keys \ {k})

(***************************************************************************)
(* math.Log2 in fixed point: the integer part is the position of the top   *)
(* bit, every fractional bit comes from squaring the mantissa.             *)
(***************************************************************************)
Scale == 2 ^ FracBits

MantOne == 2 ^ 14

RECURSIVE TopBit(_)
TopBit(m) ==
    IF m < 2 THEN 0 ELSE 1 + TopBit(m \div 2)

RECURSIVE FracLog(_, _, _)
FracLog(x, acc, bits) ==
    IF bits = 0 THEN acc
    ELSE LET sq == (x * x) \div MantOne
         IN  IF sq >= 2 * MantOne
             THEN FracLog(sq \div 2, 2 * acc + 1, bits - 1)
             ELSE FracLog(sq, 2 * acc, bits - 1)

\* log2(m) * Scale for an integer m >= 1
Log2(m) ==
    LET k == TopBit(m)
        x == IF k <= 14 THEN m * (2 ^ (14 - k)) ELSE m \div (2 ^ (k - 14))
    IN  FracLog(x, k, FracBits)

(***************************************************************************)
(* Go maps                                                                 *)
(***************************************************************************)
EmptyMap == [k \in {} |-> 0]

\* m[k] of a map[..]int: the zero value for a missing key
Get(m, k) ==
    IF k \in DOMAIN m THEN m[k] ELSE 0

\* m[k] += by for every k in keys
Incr(m, keys, by) ==
    [k \in (DOMAIN m) \cup keys |-> Get(m, k) + (IF k \in keys THEN by ELSE 0)]

RECURSIVE Ascending(_)
Ascending(S) ==
    IF S = {} THEN <<>>
    ELSE LET m == CHOOSE x \in S : \A y \in S : x <= y
         IN  <<m>> \o Ascending(S \ {m})

Rotate(s, k) ==
    [i \in 1..Len(s) |-> s[((i - 1 + k) % Len(s)) + 1]]

\* the keys of a map in the order one range statement visits them
MapOrder(keys, start) ==
    IF keys = {} THEN <<>> ELSE Rotate(Ascending(keys), start)

Starts == 0..MaxStart

(***************************************************************************)
(* Runs of request records                                                 *)
(***************************************************************************)
RunSize(r) == r.nips * r.npaths * r.n

RunIPs(r) == r.ip0 .. (r.ip0 + r.nips - 1)

RunPaths(r) == r.path0 .. (r.path0 + r.npaths - 1)

\* len(requests)
NumRecords(reqs) ==
    SumSeq([i \in 1..Len(reqs) |-> RunSize(reqs[i])])

\* the loop "for _, req := range requests { if <kept> { ips[req.SourceIP]++ } }"
\* over the runs already filtered by the condition
RECURSIVE countIPs(_)
countIPs(reqs) ==
    IF reqs = <<>> THEN EmptyMap
    ELSE LET r == reqs[Len(reqs)]
         IN  Incr(countIPs(SubSeq(reqs, 1, Len(reqs) - 1)), RunIPs(r), r.npaths * r.n)

(***************************************************************************)
(* calculateEntropy                                                        *)
(***************************************************************************)
\* variant: the counts are not divided by their total
calculateEntropy_Unnormalised(counts) ==
    LET total == SumFn(counts, DOMAIN counts)
        lt    == Log2(total)
        terms == [k \in DOMAIN counts |->
                    IF counts[k] > 0 THEN counts[k] * (lt - Log2(counts[k])) ELSE 0]
    IN  IF total = 0 THEN 0
        ELSE SumFn(terms, DOMAIN counts)

calculateEntropy(counts) ==
    LET total == SumFn(counts, DOMAIN counts)
        lt    == Log2(total)
        terms == [k \in DOMAIN counts |->
                    IF counts[k] > 0 THEN counts[k] * (lt - Log2(counts[k])) ELSE 0]
    IN  IF total = 0 THEN 0
        ELSE SumFn(terms, DOMAIN counts) \div total

(***************************************************************************)
(* calculateMetrics                                                        *)
(***************************************************************************)
\* variant: the source address is tallied inside the TCP_SYN branch
RECURSIVE metricsLoop_SynSources(_)
metricsLoop_SynSources(reqs) ==
    IF reqs = <<>>
    THEN [ipCounts |-> EmptyMap, protocolCounts |-> EmptyMap, pathCounts |-> EmptyMap,
          totalDuration |-> 0, synCount |-> 0]
    ELSE LET r   == reqs[Len(reqs)]
             acc == metricsLoop_SynSources(SubSeq(reqs, 1, Len(reqs) - 1))
         IN  [ipCounts       |-> IF r.proto = "TCP_SYN"
                                 THEN Incr(acc.ipCounts, RunIPs(r), r.npaths * r.n)
                                 ELSE acc.ipCounts,
              protocolCounts |-> Incr(acc.protocolCounts, {r.proto}, RunSize(r)),
              pathCounts     |-> Incr(acc.pathCounts, RunPaths(r), r.nips * r.n),
              totalDuration  |-> acc.totalDuration + r.dur * RunSize(r),
              synCount       |-> acc.synCount +
                                    (IF r.proto = "TCP_SYN" THEN RunSize(r) ELSE 0)]

RECURSIVE metricsLoop(_)
metricsLoop(reqs) ==
    IF reqs = <<>>
    THEN [ipCounts |-> EmptyMap, protocolCounts |-> EmptyMap, pathCounts |-> EmptyMap,
          totalDuration |-> 0, synCount |-> 0]
    ELSE LET r   == reqs[Len(reqs)]
             acc == metricsLoop(SubSeq(reqs, 1, Len(reqs) - 1))
         IN  [ipCounts       |-> Incr(acc.ipCounts, RunIPs(r), r.npaths * r.n),
              protocolCounts |-> Incr(acc.protocolCounts, {r.proto}, RunSize(r)),
              pathCounts     |-> Incr(acc.pathCounts, RunPaths(r), r.nips * r.n),
              totalDuration  |-> acc.totalDuration + r.dur * RunSize(r),
              synCount       |-> acc.synCount +
                                    (IF r.proto = "TCP_SYN" THEN RunSize(r) ELSE 0)]

calculateMetrics(reqs) ==
    LET t   == metricsLoop(reqs)
        len == NumRecords(reqs)
    IN  [TotalRequests   |-> len,
         UniqueIPs       |-> Cardinality(DOMAIN t.ipCounts),
         IPCounts        |-> t.ipCounts,
         ProtocolCounts  |-> t.protocolCounts,
         PathCounts      |-> t.pathCounts,
         IPEntropy       |-> calculateEntropy(t.ipCounts),
         PathEntropy     |-> calculateEntropy(t.pathCounts),
         AvgConnDuration |-> IF len > 0 THEN Rat(t.totalDuration, len) ELSE Rat(0, 1),
         RequestsPerIP   |-> Rat(len, Cardinality(DOMAIN t.ipCounts)),
         SYNPacketCount  |-> t.synCount]

(***************************************************************************)
(* getSeverity                                                             *)
(***************************************************************************)
\* variant: CRITICAL only strictly above 0.9
getSeverity_StrictCritical(confidence) ==
    IF RatLt(Rat(9, 10), confidence) THEN "CRITICAL"
    ELSE IF RatGeq(confidence, Rat(7, 10)) THEN "HIGH"
    ELSE IF RatGeq(confidence, Rat(5, 10)) THEN "MEDIUM"
    ELSE "LOW"

getSeverity(confidence) ==
    IF RatGeq(confidence, Rat(9, 10)) THEN "CRITICAL"
    ELSE IF RatGeq(confidence, Rat(7, 10)) THEN "HIGH"
    ELSE IF RatGeq(confidence, Rat(5, 10)) THEN "MEDIUM"
    ELSE "LOW"

(***************************************************************************)
(* getTopIPs                                                               *)
(***************************************************************************)
Swap(s, i, j) ==
    [s EXCEPT ![i] = s[j], ![j] = s[i]]

\* variant: the exchange keeps the smaller count in front
RECURSIVE topInner_Ascending(_, _, _)
topInner_Ascending(ips, i, j) ==
    IF j > Len(ips) THEN ips
    ELSE topInner_Ascending(IF ips[j].count < ips[i].count THEN Swap(ips, i, j) ELSE ips,
                            i, j + 1)

RECURSIVE topInner(_, _, _)
topInner(ips, i, j) ==
    IF j > Len(ips) THEN ips
    ELSE topInner(IF ips[j].count > ips[i].count THEN Swap(ips, i, j) ELSE ips, i, j + 1)

RECURSIVE topOuter(_, _, _)
topOuter(ips, i, n) ==
    IF i <= Len(ips) /\ i <= n
    THEN topOuter(topInner(ips, i, i + 1), i + 1, n)
    ELSE ips

\* order: the keys of ipCounts as the range statement visits them
getTopIPs(ipCounts, n, order) ==
    LET ips    == [k \in 1..Len(order) |-> [ip |-> order[k], count |-> ipCounts[order[k]]]]
        sorted == topOuter(ips, 1, n)
        limit  == IF Len(ips) < n THEN Len(ips) ELSE n
    IN  [k \in 1..limit |-> sorted[k].ip]

(***************************************************************************)
(* The five detectors.  Each returns <<>> (nil) or a one-element sequence  *)
(* holding the finding; start is the offset of the detector's range over   *)
(* its address map.  A finding carries the fields the rules compute; its  *)
(* ID (a fresh UUID) and StartTime (the wall clock) are left out, and the  *)
(* Description is the tuple of the values the text embeds.                 *)
(***************************************************************************)
Attack(type, confidence, sourceIPs, description) ==
    [Type        |-> type,
     Severity    |-> getSeverity(confidence),
     Confidence  |-> confidence,
     SourceIPs   |-> sourceIPs,
     Description |-> description,
     Mitigated   |-> FALSE]

IsSYN(r) == r.proto = "TCP_SYN"

IsHTTP(r) == r.proto = "HTTP"

IsUDP(r) == r.proto = "UDP"

\* variant: the raw signal is scaled by the floor, not by twice the floor
detectSYNFlood_FloorScale(reqs, metrics, th, start) ==
    IF metrics.SYNPacketCount < th.SYNFloodThreshold THEN <<>>
    ELSE LET synIPs == DOMAIN countIPs(SelectSeq(reqs, IsSYN))
         IN  IF metrics.SYNPacketCount > th.SYNFloodThreshold
                  /\ Cardinality(synIPs) < SynMaxIPs
             THEN LET sourceIPs  == MapOrder(synIPs, start)
                      confidence == MinOne(Rat(metrics.SYNPacketCount,
                                               th.SYNFloodThreshold))
                  IN  <<Attack("SYN_FLOOD", confidence, sourceIPs,
                               <<"SYN flood detected", metrics.SYNPacketCount,
                                 Cardinality(synIPs)>>)>>
             ELSE <<>>

detectSYNFlood(reqs, metrics, th, start) ==
    IF metrics.SYNPacketCount < th.SYNFloodThreshold THEN <<>>
    ELSE LET synIPs == DOMAIN countIPs(SelectSeq(reqs, IsSYN))
         IN  IF metrics.SYNPacketCount > th.SYNFloodThreshold
                  /\ Cardinality(synIPs) < SynMaxIPs
             THEN LET sourceIPs  == MapOrder(synIPs, start)
                      confidence == MinOne(Rat(metrics.SYNPacketCount,
                                               th.SYNFloodThreshold * 2))
                  IN  <<Attack("SYN_FLOOD", confidence, sourceIPs,
                               <<"SYN flood detected", metrics.SYNPacketCount,
                                 Cardinality(synIPs)>>)>>
             ELSE <<>>

\* variant: a path entropy of exactly 2.0 bits still triggers
detectHTTPFlood_EntropyInclusive(reqs, metrics, th, start) ==
    LET http      == SelectSeq(reqs, IsHTTP)
        httpCount == NumRecords(http)
        httpIPs   == countIPs(http)
    IN  IF httpCount < th.HTTPFloodThreshold THEN <<>>
        ELSE IF metrics.PathEntropy <= PathEntropyMax * Scale
        THEN LET sourceIPs  == getTopIPs(httpIPs, TopIPLimit,
                                         MapOrder(DOMAIN httpIPs, start))
                 confidence == MinOne(Rat(httpCount, th.HTTPFloodThreshold * 2))
             IN  <<Attack("HTTP_FLOOD", confidence, sourceIPs,
                          <<"HTTP flood detected", httpCount, metrics.PathEntropy>>)>>
        ELSE <<>>

detectHTTPFlood(reqs, metrics, th, start) ==
    LET http      == SelectSeq(reqs, IsHTTP)
        httpCount == NumRecords(http)
        httpIPs   == countIPs(http)
    IN  IF httpCount < th.HTTPFloodThreshold THEN <<>>
        ELSE IF metrics.PathEntropy < PathEntropyMax * Scale
        THEN LET sourceIPs  == getTopIPs(httpIPs, TopIPLimit,
                                         MapOrder(DOMAIN httpIPs, start))
                 confidence == MinOne(Rat(httpCount, th.HTTPFloodThreshold * 2))
             IN  <<Attack("HTTP_FLOOD", confidence, sourceIPs,
                          <<"HTTP flood detected", httpCount, metrics.PathEntropy>>)>>
        ELSE <<>>

\* variant: 100 slow connections already trigger
detectSlowloris_AtLeast(reqs, metrics, th, start) ==
    LET IsSlow(r)       == r.proto = "HTTP" /\ r.dur > th.SlowConnectionTime
        slow            == SelectSeq(reqs, IsSlow)
        slowConnections == NumRecords(slow)
        slowIPs         == countIPs(slow)
    IN  IF slowConnections >= SlowMinConnections
             /\ Cardinality(DOMAIN slowIPs) < SlowMaxIPs
        THEN LET sourceIPs  == MapOrder(DOMAIN slowIPs, start)
                 confidence == MinOne(Rat(slowConnections, SlowFullScale))
             IN  <<Attack("SLOWLORIS", confidence, sourceIPs,
                          <<"Slowloris detected", slowConnections,
                            Cardinality(DOMAIN slowIPs)>>)>>
        ELSE <<>>

detectSlowloris(reqs, metrics, th, start) ==
    LET IsSlow(r)       == r.proto = "HTTP" /\ r.dur > th.SlowConnectionTime
        slow            == SelectSeq(reqs, IsSlow)
        slowConnections == NumRecords(slow)
        slowIPs         == countIPs(slow)
    IN  IF slowConnections > SlowMinConnections
             /\ Cardinality(DOMAIN slowIPs) < SlowMaxIPs
        THEN LET sourceIPs  == MapOrder(DOMAIN slowIPs, start)
                 confidence == MinOne(Rat(slowConnections, SlowFullScale))
             IN  <<Attack("SLOWLORIS", confidence, sourceIPs,
                          <<"Slowloris detected", slowConnections,
                            Cardinality(DOMAIN slowIPs)>>)>>
        ELSE <<>>

\* variant: the sources are taken from the tally of all records
detectUDPFlood_AllSources(reqs, metrics, start) ==
    LET udpCount == Get(metrics.ProtocolCounts, "UDP")
        udpIPs   == countIPs(SelectSeq(reqs, IsUDP))
    IN  IF udpCount < UDPFloodThreshold THEN <<>>
        ELSE LET sourceIPs  == getTopIPs(metrics.IPCounts, TopIPLimit,
                                         MapOrder(DOMAIN metrics.IPCounts, start))
                 confidence == MinOne(Rat(udpCount, UDPFullScale))
             IN  <<Attack("UDP_FLOOD", confidence, sourceIPs,
                          <<"UDP flood detected", udpCount,
                            Cardinality(DOMAIN udpIPs)>>)>>

\* variant: exactly 2000 UDP records do not trigger
detectUDPFlood_Strict(reqs, metrics, start) ==
    LET udpCount == Get(metrics.ProtocolCounts, "UDP")
        udpIPs   == countIPs(SelectSeq(reqs, IsUDP))
    IN  IF udpCount <= UDPFloodThreshold THEN <<>>
        ELSE LET sourceIPs  == getTopIPs(udpIPs, TopIPLimit,
                                         MapOrder(DOMAIN udpIPs, start))
                 confidence == MinOne(Rat(udpCount, UDPFullScale))
             IN  <<Attack("UDP_FLOOD", confidence, sourceIPs,
                          <<"UDP flood detected", udpCount,
                            Cardinality(DOMAIN udpIPs)>>)>>

detectUDPFlood(reqs, metrics, start) ==
    LET udpCount == Get(metrics.ProtocolCounts, "UDP")
        udpIPs   == countIPs(SelectSeq(reqs, IsUDP))
    IN  IF udpCount < UDPFloodThreshold THEN <<>>
        ELSE LET sourceIPs  == getTopIPs(udpIPs, TopIPLimit,
                                         MapOrder(DOMAIN udpIPs, start))
                 confidence == MinOne(Rat(udpCount, UDPFullScale))
             IN  <<Attack("UDP_FLOOD", confidence, sourceIPs,
                          <<"UDP flood detected", udpCount,
                            Cardinality(DOMAIN udpIPs)>>)>>

\* (requestRate - AverageRequestRate) / StandardDeviation
zScoreOf(total, bl) ==
    Rat(total * bl.AverageRequestRate.d - bl.AverageRequestRate.n,
        bl.AverageRequestRate.d * bl.StandardDeviation)

\* variant: the rate spike alone triggers, the entropy is not consulted
detectRateAnomaly_NoEntropy(metrics, bl, th, start) ==
    LET requestRate == metrics.TotalRequests
        zScore      == zScoreOf(requestRate, bl)
    IN  IF RatLt(Rat(th.RequestRateZScore, 1), zScore)
        THEN LET sourceIPs  == getTopIPs(metrics.IPCounts, TopIPLimit,
                                         MapOrder(DOMAIN metrics.IPCounts, start))
                 confidence == MinOne(Rat(zScore.n, zScore.d * ZFullScale))
             IN  <<Attack("RATE_ANOMALY", confidence, sourceIPs,
                          <<"Rate anomaly detected", requestRate, zScore,
                            metrics.IPEntropy>>)>>
        ELSE <<>>

detectRateAnomaly(metrics, bl, th, start) ==
    LET requestRate == metrics.TotalRequests
        zScore      == zScoreOf(requestRate, bl)
    IN  IF RatLt(Rat(th.RequestRateZScore, 1), zScore)
             /\ metrics.IPEntropy < th.IPEntropyMin * Scale
        THEN LET sourceIPs  == getTopIPs(metrics.IPCounts, TopIPLimit,
                                         MapOrder(DOMAIN metrics.IPCounts, start))
                 confidence == MinOne(Rat(zScore.n, zScore.d * ZFullScale))
             IN  <<Attack("RATE_ANOMALY", confidence, sourceIPs,
                          <<"Rate anomaly detected", requestRate, zScore,
                            metrics.IPEntropy>>)>>
        ELSE <<>>

(***************************************************************************)
(* AnalyzeTraffic: the set of lists the call can return, one for every     *)
(* choice of iteration orders.                                             *)
(***************************************************************************)
\* variant: an empty batch is reported as a finding without sources
AnalyzeTraffic_EmptyReported(reqs, bl, th) ==
    IF NumRecords(reqs) = 0
    THEN {<<Attack("RATE_ANOMALY", Rat(0, 1), <<>>, <<"Rate anomaly detected", 0>>)>>}
    ELSE LET metrics == calculateMetrics(reqs)
             syn  == {detectSYNFlood(reqs, metrics, th, s) : s \in Starts}
             http == {detectHTTPFlood(reqs, metrics, th, s) : s \in Starts}
             slow == {detectSlowloris(reqs, metrics, th, s) : s \in Starts}
             udp  == {detectUDPFlood(reqs, metrics, s) : s \in Starts}
             rate == {detectRateAnomaly(metrics, bl, th, s) : s \in Starts}
         IN  {a \o b \o c \o d \o e :
                 a \in syn, b \in http, c \in slow, d \in udp, e \in rate}

AnalyzeTraffic(reqs, bl, th) ==
    IF NumRecords(reqs) = 0 THEN {<<>>}
    ELSE LET metrics == calculateMetrics(reqs)
             syn  == {detectSYNFlood(reqs, metrics, th, s) : s \in Starts}
             http == {detectHTTPFlood(reqs, metrics, th, s) : s \in Starts}
             slow == {detectSlowloris(reqs, metrics, th, s) : s \in Starts}
             udp  == {detectUDPFlood(reqs, metrics, s) : s \in Starts}
             rate == {detectRateAnomaly(metrics, bl, th, s) : s \in Starts}
         IN  {a \o b \o c \o d \o e :
                 a \in syn, b \in http, c \in slow, d \in udp, e \in rate}

(***************************************************************************)
(* UpdateBaseline                                                          *)
(***************************************************************************)
\* alpha*current + (1-alpha)*old with alpha = 0.1
Smooth(current, old) ==
    Rat(current.n * old.d + 9 * old.n * current.d, 10 * current.d * old.d)

\* int(x) of a non-negative float
Trunc(x) == x.n \div x.d

\* variant: the deviation is adapted too, from the distance of the window's
\* total to the average request rate
UpdateBaseline_AdaptsDeviation(bl, metrics) ==
    [bl EXCEPT
        !.AverageRequestRate    = Smooth(Rat(metrics.TotalRequests, 1), @),
        !.AverageUniqueIPs      = Trunc(Smooth(Rat(metrics.UniqueIPs, 1), Rat(@, 1))),
        !.AverageIPEntropy      = Smooth(Rat(metrics.IPEntropy, 1), @),
        !.AvgConnectionDuration = Smooth(metrics.AvgConnDuration, @),
        !.StandardDeviation     =
            Trunc(Smooth(Rat(Abs(metrics.TotalRequests - Trunc(bl.AverageRequestRate)), 1),
                         Rat(@, 1)))]

UpdateBaseline(bl, metrics) ==
    [bl EXCEPT
        !.AverageRequestRate    = Smooth(Rat(metrics.TotalRequests, 1), @),
        !.AverageUniqueIPs      = Trunc(Smooth(Rat(metrics.UniqueIPs, 1), Rat(@, 1))),
        !.AverageIPEntropy      = Smooth(Rat(metrics.IPEntropy, 1), @),
        !.AvgConnectionDuration = Smooth(metrics.AvgConnDuration, @)]

(***************************************************************************)
(* NewDetector                                                             *)
(***************************************************************************)
NewBaseline ==
    [AverageRequestRate    |-> Rat(100, 1),
     AverageUniqueIPs      |-> 50,
     AverageIPEntropy      |-> Rat(11 * Scale, 2),
     StandardDeviation     |-> 15,
     NormalIPRatio         |-> 2,
     AvgConnectionDuration |-> Rat(150, 1)]

NewThresholds ==
    [RequestsPerSecond  |-> 500,
     RequestRateZScore  |-> 3,
     IPEntropyMin       |-> 3,
     ConnectionsPerIP   |-> 100,
     SlowConnectionTime |-> 30000,
     SYNFloodThreshold  |-> 1000,
     HTTPFloodThreshold |-> 2000]

(***************************************************************************)
(* Inputs                                                                  *)
(***************************************************************************)
Run(proto, ip0, nips, path0, npaths, dur, n) ==
    [proto |-> proto, ip0 |-> ip0, nips |-> nips, path0 |-> path0,
     npaths |-> npaths, dur |-> dur, n |-> n]

\* SYN packets: no path, no duration
SynRuns ==
    {Run("TCP_SYN", 1, c[1], 0, 1, 0, c[2]) :
        c \in {<<1, 1>>, <<1, 1000>>, <<3, 500>>, <<9, 200>>, <<10, 150>>}}

\* HTTP requests of ordinary duration on paths 1 .. npaths
HttpRuns ==
    {Run("HTTP", 1, c[1], 1, c[2], 150, c[3]) :
        c \in {<<1, 1, 1999>>, <<1, 4, 500>>, <<1, 50, 50>>, <<25, 1, 100>>,
               <<8, 1, 25>>}}

\* HTTP connections held open, at and just above the slow-connection floor
SlowRuns ==
    {Run("HTTP", 1, c[1], 1, 1, c[2], c[3]) :
        c \in {<<1, 30001, 1>>, <<1, 30001, 100>>, <<5, 30001, 30>>,
               <<10, 30001, 15>>, <<5, 30000, 30>>}}

UdpRuns ==
    {Run("UDP", 1, c[1], 0, 1, 0, c[2]) :
        c \in {<<1, 1>>, <<1, 1999>>, <<12, 500>>}}

\* protocols the rules ignore
OtherRuns ==
    {Run("TCP", 1, c[1], 0, 1, c[2], c[3]) :
        c \in {<<1, 0, 145>>, <<2, 30001, 100>>}}

Runs == SynRuns \cup HttpRuns \cup SlowRuns \cup UdpRuns \cup OtherRuns

\* the window of normal traffic whose metrics the caller feeds to UpdateBaseline
NormalWindows ==
    {calculateMetrics(<<Run("HTTP", 1, 40, 1, 5, 150, 1)>>)}

(***************************************************************************)
(* Specification of the detector                                           *)
(***************************************************************************)
\* the WebSocket connections the server can be asked for
Conns == 1..MaxConns

\* wsClients = make(map[*websocket.Conn]bool); no handler and no broadcast
\* is running
NoClients ==
    [wsClients     |-> {},
     handler       |-> [c \in Conns |-> "none"],
     closed        |-> {},
     bc            |-> [pc |-> "idle", cur |-> 0, visited |-> {}, late |-> {}],
     fatal         |-> FALSE,
     wroteToClosed |-> FALSE]

Init ==
    /\ requests = <<>>
    /\ attacks = <<>>
    /\ pc = "idle"
    /\ baseline = NewBaseline
    /\ thresholds = NewThresholds
    /\ updates = 0
    /\ tally = EmptyMap
    /\ topN = 0
    /\ topOut = <<>>
    /\ calls = <<>>
    /\ entropyOut = <<>>
    /\ ws = NoClients

\* the caller's window grows by a run of records
StoreTraffic(r) ==
    /\ pc = "idle"
    /\ Len(requests) < MaxGroups
    /\ requests' = Append(requests, r)
    /\ UNCHANGED <<attacks, pc, baseline, thresholds, updates, tally, topN,
                   topOut, calls, entropyOut, ws>>

\* variant: a window in which nothing is found is folded into the baseline
Analyze_Adapting ==
    /\ pc = "idle"
    /\ attacks' \in AnalyzeTraffic(requests, baseline, thresholds)
    /\ pc' = "done"
    /\ baseline' = IF attacks' = <<>> /\ requests # <<>>
                   THEN UpdateBaseline(baseline, calculateMetrics(requests))
                   ELSE baseline
    /\ UNCHANGED <<requests, thresholds, updates, tally, topN, topOut, calls,
                   entropyOut, ws>>

\* one tick of the analysis engine: the window is analysed once
Analyze ==
    /\ pc = "idle"
    /\ attacks' \in AnalyzeTraffic(requests, baseline, thresholds)
    /\ pc' = "done"
    /\ UNCHANGED <<requests, baseline, thresholds, updates, tally, topN,
                   topOut, calls, entropyOut, ws>>

\* the caller moves on to the next window
NextWindow ==
    /\ pc = "done"
    /\ requests' = <<>>
    /\ attacks' = <<>>
    /\ pc' = "idle"
    /\ UNCHANGED <<baseline, thresholds, updates, tally, topN, topOut, calls,
                   entropyOut, ws>>

Adapt(m) ==
    /\ pc = "idle"
    /\ requests = <<>>
    /\ updates < MaxUpdates
    /\ baseline' = UpdateBaseline(baseline, m)
    /\ updates' = updates + 1
    /\ UNCHANGED <<requests, attacks, pc, thresholds, tally, topN, topOut,
                   calls, entropyOut, ws>>

Next ==
    \/ \E r \in Runs : StoreTraffic(r)
    \/ Analyze
    \/ NextWindow
    \/ \E m \in NormalWindows : Adapt(m)

Spec == Init /\ [][Next]_vars

(***************************************************************************)
(* Specification of getTopIPs alone: any map of at most MaxKeys addresses, *)
(* any n up to MaxN, any iteration order of the map.                       *)
(***************************************************************************)
Tallies ==
    UNION {[K -> 1..MaxCount] : K \in SUBSET (1..MaxKeys)}

\* every order in which the keys S can be visited
Orders(S) ==
    {o \in [1..Cardinality(S) -> S] : \A i, j \in 1..Cardinality(S) : o[i] = o[j] => i = j}

InitTop ==
    /\ requests = <<>>
    /\ attacks = <<>>
    /\ pc = "idle"
    /\ baseline = NewBaseline
    /\ thresholds = NewThresholds
    /\ updates = 0
    /\ tally \in Tallies
    /\ topN \in 0..MaxN
    /\ topOut = <<>>
    /\ calls = <<>>
    /\ entropyOut = <<>>
    /\ ws = NoClients

TopIPs ==
    /\ topOut = <<>>
    /\ \E order \in Orders(DOMAIN tally) :
          topOut' = <<getTopIPs(tally, topN, order)>>
    /\ UNCHANGED <<requests, attacks, pc, baseline, thresholds, updates, tally,
                   topN, calls, entropyOut, ws>>

NextTop == TopIPs

SpecTop == InitTop /\ [][NextTop]_vars

(***************************************************************************)
(* The baseline specification: a caller that collects windows of traffic   *)
(* it judges normal and folds each into the baseline, any number of times  *)
(* in a row.  requests holds the window last collected.                    *)
(***************************************************************************)
\* HTTP windows: addresses, paths, duration, records per address and path
WindowBatches ==
    {<<Run("HTTP", 1, c[1], 1, c[2], c[3], c[4])>> :
        c \in {<<40, 5, 150, 1>>, <<25, 8, 150, 1>>, <<60, 1, 100, 2>>, <<50, 2, 150, 1>>}}

InitBase == Init

CollectWindow(w) ==
    /\ updates < MaxRounds
    /\ requests # w
    /\ requests' = w
    /\ UNCHANGED <<attacks, pc, baseline, thresholds, updates, tally, topN,
                   topOut, calls, entropyOut, ws>>

Update ==
    /\ requests # <<>>
    /\ updates < MaxRounds
    /\ baseline' = UpdateBaseline(baseline, calculateMetrics(requests))
    /\ updates' = updates + 1
    /\ UNCHANGED <<requests, attacks, pc, thresholds, tally, topN, topOut,
                   calls, entropyOut, ws>>

NextBase ==
    \/ \E w \in WindowBatches : CollectWindow(w)
    \/ Update

SpecBase == InitBase /\ [][NextBase]_vars

(***************************************************************************)
(* The race specification: MaxCalls UpdateBaseline calls and one           *)
(* AnalyzeTraffic call run in different goroutines on the same Detector.   *)
(* The Detector has no lock, so the calls interleave at the loads and      *)
(* stores of the baseline's fields.  calls[p] is the position of call p:   *)
(* call 0 is the analysis, calls 1 .. MaxCalls are the updates; m is the   *)
(* call's metrics argument and tmp the value it loaded last.  An update    *)
(* at pc 2k-2 is about to load the k-th adapted field, at pc 2k-1 about    *)
(* to store it, and has returned at pc 8; the analysis has read the        *)
(* baseline at pc 1 and tmp is the z-score it computed.                    *)
(***************************************************************************)
Fields ==
    <<"AverageRequestRate", "AverageUniqueIPs", "AverageIPEntropy", "AvgConnectionDuration">>

Updaters == 1..MaxCalls

RaceWindows ==
    {calculateMetrics(<<Run("HTTP", 1, c[1], 1, c[2], c[3], c[4])>>) :
        c \in {<<40, 5, 150, 1>>, <<60, 1, 100, 2>>}}

\* the right-hand side of the k-th assignment of UpdateBaseline, old loaded
Assigned(k, metrics, old) ==
    CASE k = 1 -> Smooth(Rat(metrics.TotalRequests, 1), old)
      [] k = 2 -> Trunc(Smooth(Rat(metrics.UniqueIPs, 1), Rat(old, 1)))
      [] k = 3 -> Smooth(Rat(metrics.IPEntropy, 1), old)
      [] k = 4 -> Smooth(metrics.AvgConnDuration, old)

InitRace ==
    /\ requests = <<>>
    /\ attacks = <<>>
    /\ pc = "idle"
    /\ baseline = NewBaseline
    /\ thresholds = NewThresholds
    /\ updates = 0
    /\ tally = EmptyMap
    /\ topN = 0
    /\ topOut = <<>>
    /\ entropyOut = <<>>
    /\ ws = NoClients
    /\ calls \in [0..MaxCalls -> {[pc |-> 0, m |-> w, tmp |-> 0] : w \in RaceWindows}]

Load(p) ==
    /\ calls[p].pc < 2 * Len(Fields)
    /\ calls[p].pc % 2 = 0
    /\ calls' = [calls EXCEPT ![p].tmp = baseline[Fields[calls[p].pc \div 2 + 1]],
                               ![p].pc  = @ + 1]
    /\ UNCHANGED <<requests, attacks, pc, baseline, thresholds, updates, tally,
                   topN, topOut, entropyOut, ws>>

Store(p) ==
    /\ calls[p].pc % 2 = 1
    /\ LET k == calls[p].pc \div 2 + 1
       IN  baseline' = [baseline EXCEPT ![Fields[k]] = Assigned(k, calls[p].m, calls[p].tmp)]
    /\ calls' = [calls EXCEPT ![p].pc = @ + 1]
    /\ UNCHANGED <<requests, attacks, pc, thresholds, updates, tally, topN,
                   topOut, entropyOut, ws>>

\* detectRateAnomaly reads the average request rate and the deviation
ReadRate ==
    /\ calls[0].pc = 0
    /\ calls' = [calls EXCEPT ![0].tmp = zScoreOf(calls[0].m.TotalRequests, baseline),
                               ![0].pc  = 1]
    /\ UNCHANGED <<requests, attacks, pc, baseline, thresholds, updates, tally,
                   topN, topOut, entropyOut, ws>>

NextRace ==
    \/ \E p \in Updaters : Load(p)
    \/ \E p \in Updaters : Store(p)
    \/ ReadRate

SpecRace == InitRace /\ [][NextRace]_vars

(***************************************************************************)
(* The entropy specification: calculateEntropy applied to a map of counts, *)
(* zero counts and the empty map included.                                 *)
(***************************************************************************)
CountMaps ==
    UNION {[K -> 0..MaxCount] : K \in SUBSET (1..MaxKeys)}

InitEnt ==
    /\ requests = <<>>
    /\ attacks = <<>>
    /\ pc = "idle"
    /\ baseline = NewBaseline
    /\ thresholds = NewThresholds
    /\ updates = 0
    /\ tally \in CountMaps
    /\ topN = 0
    /\ topOut = <<>>
    /\ calls = <<>>
    /\ entropyOut = <<>>
    /\ ws = NoClients

Entropy ==
    /\ entropyOut = <<>>
    /\ entropyOut' = <<calculateEntropy(tally)>>
    /\ UNCHANGED <<requests, attacks, pc, baseline, thresholds, updates, tally, topN, topOut,
                   calls, ws>>

NextEnt == Entropy

SpecEnt == InitEnt /\ [][NextEnt]_vars

(***************************************************************************)
(* The client specification: the gin handlers of /ws, one goroutine per    *)
(* connection, and the analysis engine's broadcastMessage share the        *)
(* package variable wsClients, a plain map without a lock.  An operation   *)
(* on the map (an assignment, a delete, a step of the range) takes time:   *)
(* it begins and it ends, and other goroutines run in between.  Goroutine  *)
(* 0 is the analysis engine, goroutine c > 0 the handler of connection c.  *)
(*   ws.handler[c]: "none", "insert", "inserting", "reading", "delete",    *)
(*                  "deleting", "close", "gone"                            *)
(*   ws.bc.pc:      "idle", "iter", "nexting", "write", "bclose",          *)
(*                  "bdelete", "bdeleting"                                 *)
(* Two operations on a Go map that overlap, one of them a write, are a     *)
(* data race: the write takes effect, or is lost, or the runtime stops     *)
(* the program (fatal error: concurrent map writes / concurrent map        *)
(* iteration and map write).                                               *)
(***************************************************************************)
Engine == 0

InMapOp(w, g) ==
    IF g = Engine THEN w.bc.pc \in {"nexting", "bdeleting"}
    ELSE w.handler[g] \in {"inserting", "deleting"}

IsWrite(w, g) ==
    IF g = Engine THEN w.bc.pc = "bdeleting" ELSE InMapOp(w, g)

\* the operation goroutine g is in overlaps one of another goroutine, and
\* one of the two writes
Raced(w, g) ==
    \E h \in (Conns \cup {Engine}) \ {g} :
        InMapOp(w, h) /\ (IsWrite(w, g) \/ IsWrite(w, h))

\* what the end of an operation of goroutine g can leave behind: done is the
\* state with the operation's effect, undone the state without it
Outcomes(g, done, undone) ==
    IF Raced(ws, g)
    THEN {done, undone, [undone EXCEPT !.fatal = TRUE]}
    ELSE {done}

RestUnchanged ==
    UNCHANGED <<requests, attacks, pc, baseline, thresholds, updates, tally, topN, topOut,
                calls, entropyOut>>

InitWs == Init

\* upgrader.Upgrade succeeds
Upgrade(c) ==
    /\ ~ws.fatal
    /\ ws.handler[c] = "none"
    /\ ws' = [ws EXCEPT !.handler[c] = "insert"]
    /\ RestUnchanged

\* upgrader.Upgrade fails: the handler returns
UpgradeFails(c) ==
    /\ ~ws.fatal
    /\ ws.handler[c] = "none"
    /\ ws' = [ws EXCEPT !.handler[c] = "gone"]
    /\ RestUnchanged

\* wsClients[conn] = true
BeginInsert(c) ==
    /\ ~ws.fatal
    /\ ws.handler[c] = "insert"
    /\ ws' = [ws EXCEPT !.handler[c] = "inserting"]
    /\ RestUnchanged

EndInsert(c) ==
    /\ ~ws.fatal
    /\ ws.handler[c] = "inserting"
    /\ LET undone == [ws EXCEPT !.handler[c] = "reading"]
           done   == [undone EXCEPT !.wsClients = @ \cup {c},
                                    !.bc.late   = IF ws.bc.pc = "idle" THEN @
                                                  ELSE @ \cup {c}]
       IN  ws' \in Outcomes(c, done, undone)
    /\ RestUnchanged

\* conn.ReadMessage returns an error: the client left, or the connection
\* was closed
ReadError(c) ==
    /\ ~ws.fatal
    /\ ws.handler[c] = "reading"
    /\ ws' = [ws EXCEPT !.handler[c] = "delete"]
    /\ RestUnchanged

\* the deferred delete(wsClients, conn)
BeginDelete(c) ==
    /\ ~ws.fatal
    /\ ws.handler[c] = "delete"
    /\ ws' = [ws EXCEPT !.handler[c] = "deleting"]
    /\ RestUnchanged

EndDelete(c) ==
    /\ ~ws.fatal
    /\ ws.handler[c] = "deleting"
    /\ LET undone == [ws EXCEPT !.handler[c] = "close"]
           done   == [undone EXCEPT !.wsClients = @ \ {c}]
       IN  ws' \in Outcomes(c, done, undone)
    /\ RestUnchanged

\* the deferred conn.Close()
Close(c) ==
    /\ ~ws.fatal
    /\ ws.handler[c] = "close"
    /\ ws' = [ws EXCEPT !.handler[c] = "gone", !.closed = @ \cup {c}]
    /\ RestUnchanged

\* the analysis engine calls broadcastMessage: the range begins
Broadcast ==
    /\ ~ws.fatal
    /\ ws.bc.pc = "idle"
    /\ ws' = [ws EXCEPT !.bc = [pc |-> "iter", cur |-> 0, visited |-> {}, late |-> {}]]
    /\ RestUnchanged

\* the range asks the map for its next key
BeginNext ==
    /\ ~ws.fatal
    /\ ws.bc.pc = "iter"
    /\ ws' = [ws EXCEPT !.bc.pc = "nexting"]
    /\ RestUnchanged

\* the range yields a key not yet visited, or ends; keys inserted since the
\* range began may be yielded or skipped
EndNext ==
    /\ ~ws.fatal
    /\ ws.bc.pc = "nexting"
    /\ LET left  == ws.wsClients \ ws.bc.visited
           yield == {[ws EXCEPT !.bc.pc = "write", !.bc.cur = c,
                                !.bc.visited = @ \cup {c}] : c \in left}
           end   == IF left \subseteq ws.bc.late
                    THEN {[ws EXCEPT !.bc = [pc |-> "idle", cur |-> 0,
                                             visited |-> {}, late |-> {}]]}
                    ELSE {}
           crash == IF Raced(ws, Engine)
                    THEN {[ws EXCEPT !.bc.pc = "iter", !.fatal = TRUE]}
                    ELSE {}
       IN  ws' \in yield \cup end \cup crash
    /\ RestUnchanged

\* client.WriteJSON(message): fails on a closed connection, and may fail on
\* an open one
WriteJSON(ok) ==
    /\ ~ws.fatal
    /\ ws.bc.pc = "write"
    /\ ok => ws.bc.cur \notin ws.closed
    /\ ws' = [ws EXCEPT !.bc.pc = IF ok THEN "iter" ELSE "bclose",
                        !.wroteToClosed =
                            @ \/ (ws.bc.cur \in ws.closed /\ ws.bc.cur \notin ws.wsClients)]
    /\ RestUnchanged

\* client.Close() after a failed write
BroadcastClose ==
    /\ ~ws.fatal
    /\ ws.bc.pc = "bclose"
    /\ ws' = [ws EXCEPT !.bc.pc = "bdelete", !.closed = @ \cup {ws.bc.cur}]
    /\ RestUnchanged

\* delete(wsClients, client) inside the range
BroadcastBeginDelete ==
    /\ ~ws.fatal
    /\ ws.bc.pc = "bdelete"
    /\ ws' = [ws EXCEPT !.bc.pc = "bdeleting"]
    /\ RestUnchanged

BroadcastEndDelete ==
    /\ ~ws.fatal
    /\ ws.bc.pc = "bdeleting"
    /\ LET undone == [ws EXCEPT !.bc.pc = "iter"]
           done   == [undone EXCEPT !.wsClients = @ \ {ws.bc.cur}]
       IN  ws' \in Outcomes(Engine, done, undone)
    /\ RestUnchanged

NextWs ==
    \/ \E c \in Conns : Upgrade(c)
    \/ \E c \in Conns : UpgradeFails(c)
    \/ \E c \in Conns : BeginInsert(c)
    \/ \E c \in Conns : EndInsert(c)
    \/ \E c \in Conns : ReadError(c)
    \/ \E c \in Conns : BeginDelete(c)
    \/ \E c \in Conns : EndDelete(c)
    \/ \E c \in Conns : Close(c)
    \/ Broadcast
    \/ BeginNext
    \/ EndNext
    \/ \E ok \in BOOLEAN : WriteJSON(ok)
    \/ BroadcastClose
    \/ BroadcastBeginDelete
    \/ BroadcastEndDelete

SpecWs == InitWs /\ [][NextWs]_vars

(***************************************************************************)
(* Vocabulary of the properties: what a batch contains, counted record by  *)
(* record, and what the last call returned.                                *)
(***************************************************************************)
RecordsWhere(reqs, Test(_)) ==
    SumSeq([i \in 1..Len(reqs) |-> IF Test(reqs[i]) THEN RunSize(reqs[i]) ELSE 0])

AddrsWhere(reqs, Test(_)) ==
    UNION {RunIPs(reqs[i]) : i \in {j \in 1..Len(reqs) : Test(reqs[j])}}

PathsWhere(reqs, Test(_)) ==
    UNION {RunPaths(reqs[i]) : i \in {j \in 1..Len(reqs) : Test(reqs[j])}}

AnyRecord(r) == TRUE

SlowHTTP(r) == r.proto = "HTTP" /\ r.dur > thresholds.SlowConnectionTime

SlowOther(r) == r.proto # "HTTP" /\ r.dur > thresholds.SlowConnectionTime

\* records of the batch sent by address ip
RecordsFrom(reqs, ip) ==
    SumSeq([i \in 1..Len(reqs) |->
               IF ip \in RunIPs(reqs[i]) THEN reqs[i].npaths * reqs[i].n ELSE 0])

\* records of the batch asking for path p
RecordsOn(reqs, p) ==
    SumSeq([i \in 1..Len(reqs) |->
               IF p \in RunPaths(reqs[i]) THEN reqs[i].nips * reqs[i].n ELSE 0])

\* the distribution of the batch over its source addresses
AddrTally(reqs) ==
    [a \in AddrsWhere(reqs, AnyRecord) |-> RecordsFrom(reqs, a)]

\* the distribution of the batch over its request paths
PathTally(reqs) ==
    [p \in PathsWhere(reqs, AnyRecord) |-> RecordsOn(reqs, p)]

\* every address of the batch sent the same number of records
UniformAddrs(reqs) ==
    LET addrs == AddrsWhere(reqs, AnyRecord)
    IN  \A a \in addrs : RecordsFrom(reqs, a) * Cardinality(addrs) = NumRecords(reqs)

\* every path of the batch was asked for the same number of times
UniformPaths(reqs) ==
    LET paths == PathsWhere(reqs, AnyRecord)
    IN  \A p \in paths : RecordsOn(reqs, p) * Cardinality(paths) = NumRecords(reqs)

Findings(type) ==
    {attacks[i] : i \in {j \in DOMAIN attacks : attacks[j].Type = type}}

Has(type) == Findings(type) # {}

Returned == pc = "done"

\* the rational c equals min(num/den, 1)
IsClamped(c, num, den) ==
    IF num >= den THEN c.n = c.d ELSE c.n * den = num * c.d

(***************************************************************************)
(* C1  Every finding AnalyzeTraffic returns has a confidence c with        *)
(*     0 <= c <= 1, whichever detector produced it and however far the     *)
(*     counts lie beyond the thresholds.                                   *)
(***************************************************************************)
C1_ConfidenceInUnitInterval ==
    \A i \in DOMAIN attacks :
        /\ attacks[i].Confidence.d > 0
        /\ 0 <= attacks[i].Confidence.n
        /\ attacks[i].Confidence.n <= attacks[i].Confidence.d

\* a SYN flood of more than twice the floor: the raw signal exceeds 1
C1_Witness ==
    /\ Returned
    /\ RecordsWhere(requests, IsSYN) > 2 * thresholds.SYNFloodThreshold
    /\ \E f \in Findings("SYN_FLOOD") : f.Confidence = RatOne

(***************************************************************************)
(* C2  The severity of every finding is the step function of its           *)
(*     confidence: CRITICAL from 0.9, HIGH from 0.7, MEDIUM from 0.5, LOW  *)
(*     below, the same for all five finding types.                         *)
(***************************************************************************)
StepSeverity(c) ==
    CASE 10 * c.n >= 9 * c.d -> "CRITICAL"
      [] 10 * c.n < 9 * c.d /\ 10 * c.n >= 7 * c.d -> "HIGH"
      [] 10 * c.n < 7 * c.d /\ 10 * c.n >= 5 * c.d -> "MEDIUM"
      [] OTHER -> "LOW"

C2_SeverityIsStepFunction ==
    \A i \in DOMAIN attacks : attacks[i].Severity = StepSeverity(attacks[i].Confidence)

\* a finding whose confidence is exactly 0.9 (1800 SYN packets, floor 1000)
C2_Witness ==
    /\ Returned
    /\ \E i \in DOMAIN attacks :
          /\ attacks[i].Confidence = [n |-> 9, d |-> 10]
          /\ attacks[i].Severity = "CRITICAL"

(***************************************************************************)
(* C3  A SYN_FLOOD finding is returned if and only if the batch holds at   *)
(*     least SYNFloodThreshold TCP_SYN records and they come from fewer    *)
(*     than 10 distinct addresses; exactly floor-many records trigger.     *)
(***************************************************************************)
C3_SynFloodIff ==
    Returned =>
        (Has("SYN_FLOOD") <=>
            /\ RecordsWhere(requests, IsSYN) >= thresholds.SYNFloodThreshold
            /\ Cardinality(AddrsWhere(requests, IsSYN)) < 10)

(***************************************************************************)
(* C4  (as stated) 1500 TCP_SYN records from exactly 3 addresses with      *)
(*     floor 1000 yield a SYN_FLOOD finding of confidence 0.75 and         *)
(*     severity MEDIUM.                                                    *)
(***************************************************************************)
C4_Batch ==
    /\ Returned
    /\ thresholds.SYNFloodThreshold = 1000
    /\ NumRecords(requests) = 1500
    /\ RecordsWhere(requests, IsSYN) = 1500
    /\ Cardinality(AddrsWhere(requests, IsSYN)) = 3

C4_SynExampleMedium ==
    C4_Batch =>
        \E f \in Findings("SYN_FLOOD") :
            f.Confidence = [n |-> 3, d |-> 4] /\ f.Severity = "MEDIUM"

(***************************************************************************)
(* C4  (amended) 1500 TCP_SYN records from exactly 3 addresses with floor  *)
(*     1000 yield a SYN_FLOOD finding of confidence 0.75 and severity      *)
(*     HIGH.                                                               *)
(***************************************************************************)
C4_SynExampleHigh ==
    C4_Batch =>
        \E f \in Findings("SYN_FLOOD") :
            f.Confidence = [n |-> 3, d |-> 4] /\ f.Severity = "HIGH"

C4_Witness ==
    C4_Batch /\ Has("SYN_FLOOD")

(***************************************************************************)
(* C5  An HTTP_FLOOD finding is returned if and only if the batch holds at *)
(*     least HTTPFloodThreshold HTTP records and the entropy of the        *)
(*     window's path distribution is below 2.0 bits.  In particular, when  *)
(*     the paths of the window are equally frequent, enough HTTP records   *)
(*     trigger on fewer than 4 paths (a single path has entropy 0) and do  *)
(*     not trigger on 4 or more (50 paths have entropy 5.6).               *)
(***************************************************************************)
C5_HttpFloodIff ==
    Returned =>
        LET httpCount == RecordsWhere(requests, IsHTTP)
            paths     == PathsWhere(requests, AnyRecord)
            enough    == httpCount >= thresholds.HTTPFloodThreshold
        IN  /\ Has("HTTP_FLOOD") <=>
                  (enough /\ calculateEntropy(PathTally(requests)) < 2 * Scale)
            /\ (enough /\ UniformPaths(requests)) =>
                  (Has("HTTP_FLOOD") <=> Cardinality(paths) < 4)

\* exactly floor-many HTTP records, all on one path
C5_Witness ==
    /\ Returned
    /\ RecordsWhere(requests, IsHTTP) = thresholds.HTTPFloodThreshold
    /\ Cardinality(PathsWhere(requests, AnyRecord)) = 1
    /\ Has("HTTP_FLOOD")

(***************************************************************************)
(* C6  A SLOWLORIS finding is returned if and only if more than 100 HTTP   *)
(*     records last strictly longer than the slow-connection floor and     *)
(*     those records come from fewer than 10 distinct addresses; slow      *)
(*     records of other protocols never count.                             *)
(***************************************************************************)
C6_SlowlorisIff ==
    Returned =>
        (Has("SLOWLORIS") <=>
            /\ RecordsWhere(requests, SlowHTTP) > 100
            /\ Cardinality(AddrsWhere(requests, SlowHTTP)) < 10)

\* 150 slow HTTP records from 5 addresses next to slow records of another
\* protocol, which the finding does not count
C6_Witness ==
    /\ Returned
    /\ RecordsWhere(requests, SlowHTTP) = 150
    /\ Cardinality(AddrsWhere(requests, SlowHTTP)) = 5
    /\ RecordsWhere(requests, SlowOther) > 0
    /\ \E f \in Findings("SLOWLORIS") : f.Description[2] = 150

(***************************************************************************)
(* C7  A UDP_FLOOD finding is returned if and only if the batch holds at   *)
(*     least 2000 UDP records, whatever the number of source addresses,    *)
(*     and its confidence is min(udpCount / 5000, 1).                      *)
(***************************************************************************)
C7_UdpFloodIff ==
    Returned =>
        LET udpCount == RecordsWhere(requests, IsUDP)
        IN  /\ Has("UDP_FLOOD") <=> udpCount >= 2000
            /\ \A f \in Findings("UDP_FLOOD") : IsClamped(f.Confidence, udpCount, 5000)

\* exactly 2000 UDP records
C7_Witness ==
    /\ Returned
    /\ RecordsWhere(requests, IsUDP) = 2000
    /\ \E f \in Findings("UDP_FLOOD") : f.Confidence = [n |-> 2, d |-> 5]

(***************************************************************************)
(* C8  A RATE_ANOMALY finding is returned only when                        *)
(*     z = (total - average request rate) / standard deviation strictly    *)
(*     exceeds the z-score threshold and the source-address entropy is     *)
(*     strictly below the entropy floor; equally frequent addresses, 8 or  *)
(*     more of them (entropy >= 3.0), give no finding with the floor 3.0;  *)
(*     with average 100, deviation 15, threshold 3.0 and floor 3.0, 200    *)
(*     records of source entropy 1.0 give confidence 1.0 and CRITICAL.     *)
(***************************************************************************)
C8_Example ==
    /\ Returned
    /\ baseline.AverageRequestRate = [n |-> 100, d |-> 1]
    /\ baseline.StandardDeviation = 15
    /\ thresholds.RequestRateZScore = 3
    /\ thresholds.IPEntropyMin = 3
    /\ NumRecords(requests) = 200
    /\ Cardinality(AddrsWhere(requests, AnyRecord)) = 2
    /\ UniformAddrs(requests)

C8_RateAnomalyOnlyWhen ==
    Returned =>
        LET total == NumRecords(requests)
            avg   == baseline.AverageRequestRate
            zHigh == total * avg.d - avg.n >
                        thresholds.RequestRateZScore * baseline.StandardDeviation * avg.d
            addrs == AddrsWhere(requests, AnyRecord)
        IN  /\ Has("RATE_ANOMALY") =>
                  /\ zHigh
                  /\ calculateEntropy(AddrTally(requests)) < thresholds.IPEntropyMin * Scale
            /\ (thresholds.IPEntropyMin = 3 /\ Cardinality(addrs) >= 8
                   /\ UniformAddrs(requests)) => ~Has("RATE_ANOMALY")
            /\ C8_Example =>
                  \E f \in Findings("RATE_ANOMALY") :
                      f.Confidence = RatOne /\ f.Severity = "CRITICAL"

C8_Witness ==
    C8_Example /\ Has("RATE_ANOMALY")

(***************************************************************************)
(* C9  getTopIPs(T, N) returns exactly min(N, number of addresses of T)    *)
(*     distinct addresses of T in non-increasing order of count, and no    *)
(*     address left out has a larger count than one returned.              *)
(***************************************************************************)
C9_TopNSelection ==
    \A k \in DOMAIN topOut :
        LET out  == topOut[k]
            keys == DOMAIN tally
            got  == {out[i] : i \in DOMAIN out}
        IN  /\ Len(out) = (IF topN < Cardinality(keys) THEN topN ELSE Cardinality(keys))
            /\ got \subseteq keys
            /\ Cardinality(got) = Len(out)
            /\ \A i, j \in DOMAIN out : i < j => tally[out[i]] >= tally[out[j]]
            /\ \A a \in got : \A b \in keys \ got : tally[a] >= tally[b]

\* a proper selection: fewer addresses asked for than there are, with
\* different counts on both sides of the cut
C9_Witness ==
    /\ topOut # <<>>
    /\ topN >= 2
    /\ topN < Cardinality(DOMAIN tally)
    /\ \E a \in DOMAIN tally : \E b \in DOMAIN tally :
          /\ tally[a] > tally[b]
          /\ a \in {topOut[1][i] : i \in DOMAIN topOut[1]}
          /\ b \notin {topOut[1][i] : i \in DOMAIN topOut[1]}

(***************************************************************************)
(* C10 Top-N selection is deterministic for a fixed input: whatever a      *)
(*     second evaluation on the same batch can return, it lists in the     *)
(*     HTTP-flood, UDP-flood and rate-anomaly findings the same addresses  *)
(*     in the same order as the evaluation that was made.                  *)
(***************************************************************************)
TopLists(atts) ==
    [i \in {j \in DOMAIN atts : atts[j].Type \in {"HTTP_FLOOD", "UDP_FLOOD", "RATE_ANOMALY"}}
        |-> atts[i].SourceIPs]

C10_TopNDeterministic ==
    Returned =>
        \A again \in AnalyzeTraffic(requests, baseline, thresholds) :
            TopLists(again) = TopLists(attacks)

(***************************************************************************)
(* C11 Analysing the same batch twice with the baseline and the thresholds *)
(*     unchanged yields identical finding lists: whatever a second         *)
(*     evaluation can return equals the list that was returned, finding by *)
(*     finding and field by field (type, severity, confidence, ordered     *)
(*     source list, description, mitigated flag).                          *)
(***************************************************************************)
C11_Idempotent ==
    Returned =>
        \A again \in AnalyzeTraffic(requests, baseline, thresholds) :
            again = attacks

(***************************************************************************)
(* C12 Analysing an empty batch returns the empty finding list, and that   *)
(*     is the only thing the call can do: no detector contributes, no      *)
(*     division is evaluated, and the baseline and the thresholds are the  *)
(*     same after the call as before.                                      *)
(***************************************************************************)
C12_EmptyBatch ==
    [][(pc = "idle" /\ pc' = "done" /\ NumRecords(requests) = 0) =>
          /\ attacks' = <<>>
          /\ AnalyzeTraffic(requests, baseline, thresholds) = {<<>>}
          /\ baseline' = baseline
          /\ thresholds' = thresholds]_vars

\* an analysis of the empty batch has returned
C12_Witness ==
    /\ Returned
    /\ requests = <<>>
    /\ attacks = <<>>

(***************************************************************************)
(* C13 One UpdateBaseline call with the metrics m of a window sets each of *)
(*     the four adapted fields to exactly 0.1*current + 0.9*old: the       *)
(*     average request rate from m.TotalRequests, the average unique-      *)
(*     source count from m.UniqueIPs, the average source entropy from      *)
(*     m.IPEntropy and the average connection duration from                *)
(*     m.AvgConnDuration; an average request rate of 100 and a window of   *)
(*     200 records give 110.                                               *)
(***************************************************************************)
\* 0.1*current + 0.9*old, both rationals
Ema(current, old) ==
    Rat(current.n * old.d + 9 * old.n * current.d, 10 * current.d * old.d)

Updated == updates' = updates + 1

C13_ExactEma ==
    [][Updated =>
          LET m == calculateMetrics(requests)
          IN  /\ baseline'.AverageRequestRate =
                     Ema(Rat(m.TotalRequests, 1), baseline.AverageRequestRate)
              /\ Rat(baseline'.AverageUniqueIPs, 1) =
                     Ema(Rat(m.UniqueIPs, 1), Rat(baseline.AverageUniqueIPs, 1))
              /\ baseline'.AverageIPEntropy =
                     Ema(Rat(m.IPEntropy, 1), baseline.AverageIPEntropy)
              /\ baseline'.AvgConnectionDuration =
                     Ema(m.AvgConnDuration, baseline.AvgConnectionDuration)
              /\ (baseline.AverageRequestRate = Rat(100, 1) /\ m.TotalRequests = 200) =>
                     baseline'.AverageRequestRate = Rat(110, 1)]_vars

(***************************************************************************)
(* C14 Under repeated UpdateBaseline calls with the metrics of the same    *)
(*     window every adapted average converges geometrically to the         *)
(*     window's value: after each call the distance of the average request *)
(*     rate, of the average unique-source count, of the average source     *)
(*     entropy and of the average connection duration from the window's    *)
(*     value is 0.9 times what it was before the call.                     *)
(***************************************************************************)
\* |current - average|, both rationals
Gap(current, average) ==
    Rat(Abs(current.n * average.d - average.n * current.d), current.d * average.d)

\* the four distances of baseline bl from the window of metrics m
Gaps(bl, m) ==
    [rate     |-> Gap(Rat(m.TotalRequests, 1), bl.AverageRequestRate),
     unique   |-> Gap(Rat(m.UniqueIPs, 1), Rat(bl.AverageUniqueIPs, 1)),
     entropy  |-> Gap(Rat(m.IPEntropy, 1), bl.AverageIPEntropy),
     duration |-> Gap(m.AvgConnDuration, bl.AvgConnectionDuration)]

\* after = 0.9 * before
NineTenths(after, before) ==
    after = Rat(9 * before.n, 10 * before.d)

C14_GapShrinks ==
    [][Updated =>
          LET m      == calculateMetrics(requests)
              before == Gaps(baseline, m)
              after  == Gaps(baseline', m)
          IN  \A f \in DOMAIN before : NineTenths(after[f], before[f])]_vars

(***************************************************************************)
(* C15 UpdateBaseline never changes the standard deviation of the          *)
(*     baseline: after any sequence of UpdateBaseline and AnalyzeTraffic   *)
(*     calls the deviation is the seed value 15.0 and the thresholds are   *)
(*     the values NewDetector set.                                         *)
(***************************************************************************)
C15_DeviationAndThresholdsFixed ==
    /\ baseline.StandardDeviation = 15
    /\ thresholds = [RequestsPerSecond  |-> 500,
                     RequestRateZScore  |-> 3,
                     IPEntropyMin       |-> 3,
                     ConnectionsPerIP   |-> 100,
                     SlowConnectionTime |-> 30000,
                     SYNFloodThreshold  |-> 1000,
                     HTTPFloodThreshold |-> 2000]

\* the baseline has been adapted and an analysis made after it has returned
\* findings
C15_Witness ==
    /\ updates >= 1
    /\ baseline.AverageRequestRate # [n |-> 100, d |-> 1]
    /\ Returned
    /\ attacks # <<>>

(***************************************************************************)
(* C16 The baseline is changed by UpdateBaseline only: a step that changes *)
(*     it is an UpdateBaseline call, and an AnalyzeTraffic call, whatever  *)
(*     the batch and whether or not a detector triggers, leaves every      *)
(*     field of the baseline as it was, so the z-score of the batch's      *)
(*     total is the same after the call as before.                         *)
(***************************************************************************)
Analyzed == pc = "idle" /\ pc' = "done"

C16_BaselineOnlyByUpdate ==
    [][/\ baseline' # baseline => updates' = updates + 1
       /\ Analyzed =>
             /\ \A f \in DOMAIN baseline : baseline'[f] = baseline[f]
             /\ DOMAIN baseline' = DOMAIN baseline
             /\ zScoreOf(NumRecords(requests), baseline')
                    = zScoreOf(NumRecords(requests), baseline)]_vars

\* an analysis has returned a rate anomaly, the finding that reads the
\* baseline, after the baseline was adapted
C16_Witness ==
    /\ Returned
    /\ Has("RATE_ANOMALY")
    /\ updates >= 1

(***************************************************************************)
(* C17 Reads and writes of the baseline do not race: when UpdateBaseline   *)
(*     calls and an AnalyzeTraffic call run concurrently on one Detector,  *)
(*     every call is atomic with respect to the baseline, so that once all *)
(*     have returned the baseline is the one some serial order of the      *)
(*     updates produces (no update is lost, none is applied in part) and   *)
(*     the z-score the analysis computed is the one it computes at some    *)
(*     point of a serial order.                                            *)
(***************************************************************************)
\* the baseline after the updates listed in order have run one after another
RECURSIVE AppliedInTurn(_, _)
AppliedInTurn(bl, order) ==
    IF order = <<>> THEN bl
    ELSE AppliedInTurn(UpdateBaseline(bl, calls[Head(order)].m), Tail(order))

SerialResults ==
    {AppliedInTurn(NewBaseline, order) : order \in Orders(Updaters)}

SerialPoints ==
    {AppliedInTurn(NewBaseline, order) :
        order \in UNION {Orders(some) : some \in SUBSET Updaters}}

AllReturned ==
    /\ DOMAIN calls = 0..MaxCalls
    /\ calls[0].pc = 1
    /\ \A p \in Updaters : calls[p].pc = 2 * Len(Fields)

C18_UniqueSourcesBounded ==
    (pc = "idle" /\ NumRecords(requests) > 0) =>
        LET m == calculateMetrics(requests)
        IN  /\ m.UniqueIPs >= 1
            /\ m.UniqueIPs <= m.TotalRequests
            /\ m.TotalRequests = NumRecords(requests)
            /\ m.UniqueIPs = Cardinality(AddrsWhere(requests, AnyRecord))
            /\ m.RequestsPerIP.d > 0
            /\ m.RequestsPerIP.n * m.UniqueIPs = m.TotalRequests * m.RequestsPerIP.d

\* a batch to analyse that has several sources and several records of one
\* source
C18_Witness ==
    /\ pc = "idle"
    /\ Cardinality(AddrsWhere(requests, AnyRecord)) > 1
    /\ Cardinality(AddrsWhere(requests, AnyRecord)) < NumRecords(requests)
    /\ calculateMetrics(requests).UniqueIPs > 1

(***************************************************************************)
(* C19 calculateEntropy returns log2(k) for equal positive counts on k     *)
(*     keys (0 when a single key holds all the mass), returns 0 when the   *)
(*     counts sum to 0, and returns the same value when the counts are     *)
(*     permuted among the keys.  log2(k) is taken from a table to five     *)
(*     decimals; the values agree to 0.005 bit, and exactly when k and     *)
(*     the common count are powers of two.                                 *)
(***************************************************************************)
\* log2(k) in units of 10^-5 bit
Log2Table ==
    <<0, 100000, 158496, 200000, 232193, 258496, 280735, 300000>>

\* h, in units of 2^-FracBits bit, is log2(k) to 0.005 bit
NearLog2(h, k) ==
    Abs(h * 100000 - Log2Table[k] * Scale) <= 500 * Scale

IsPowerOfTwo(x) ==
    x = 2 ^ TopBit(x)

\* the counts of map counts, moved among its keys as order says
Permuted(counts, order) ==
    LET keys == Ascending(DOMAIN counts)
    IN  [key \in DOMAIN counts |->
            counts[order[CHOOSE i \in 1..Len(keys) : keys[i] = key]]]

C19_EntropyOfUniform ==
    entropyOut # <<>> =>
        LET h     == entropyOut[1]
            keys  == DOMAIN tally
            k     == Cardinality(keys)
            total == SumFn(tally, keys)
            equal == k >= 1 /\ \E c \in 1..MaxCount : \A key \in keys : tally[key] = c
        IN  /\ total = 0 => h = 0
            /\ equal => /\ NearLog2(h, k)
                        /\ k = 1 => h = 0
                        /\ (IsPowerOfTwo(k) /\ IsPowerOfTwo(total)) => h = TopBit(k) * Scale
            /\ \A order \in Orders(keys) : calculateEntropy(Permuted(tally, order)) = h

\* the entropy of three keys holding two records each has been computed
C19_Witness ==
    /\ entropyOut # <<>>
    /\ Cardinality(DOMAIN tally) = 3
    /\ \A key \in DOMAIN tally : tally[key] = 2
    /\ entropyOut[1] > Scale

(***************************************************************************)
(* C20 Every finding AnalyzeTraffic returns lists at least one source      *)
(*     address, lists no address twice, lists only addresses of records    *)
(*     of the batch that carry the protocol tag the finding is about       *)
(*     (TCP_SYN for SYN_FLOOD, HTTP for HTTP_FLOOD, HTTP with a duration   *)
(*     above SlowConnectionTime for SLOWLORIS, UDP for UDP_FLOOD, any for  *)
(*     RATE_ANOMALY), and lists at most 20 addresses, at most 9 in a       *)
(*     SYN_FLOOD or SLOWLORIS finding.                                     *)
(***************************************************************************)
RelevantAddrs(type) ==
    CASE type = "SYN_FLOOD"    -> AddrsWhere(requests, IsSYN)
      [] type = "HTTP_FLOOD"   -> AddrsWhere(requests, IsHTTP)
      [] type = "SLOWLORIS"    -> AddrsWhere(requests, SlowHTTP)
      [] type = "UDP_FLOOD"    -> AddrsWhere(requests, IsUDP)
      [] type = "RATE_ANOMALY" -> AddrsWhere(requests, AnyRecord)

C20_SourceListsWellFormed ==
    \A i \in DOMAIN attacks :
        LET list   == attacks[i].SourceIPs
            listed == {list[j] : j \in DOMAIN list}
        IN  /\ Len(list) >= 1
            /\ Cardinality(listed) = Len(list)
            /\ listed \subseteq RelevantAddrs(attacks[i].Type)
            /\ Len(list) <= 20
            /\ attacks[i].Type \in {"SYN_FLOOD", "SLOWLORIS"} => Len(list) <= 9

\* a UDP flood found in a batch that also holds addresses without UDP
\* records, together with an HTTP flood from more than 20 addresses, of
\* which 20 are listed
C20_Witness ==
    /\ Returned
    /\ Has("UDP_FLOOD")
    /\ ~(AddrsWhere(requests, AnyRecord) \subseteq AddrsWhere(requests, IsUDP))
    /\ Cardinality(AddrsWhere(requests, IsHTTP)) > 20
    /\ \E f \in Findings("HTTP_FLOOD") : Len(f.SourceIPs) = 20

(***************************************************************************)
(* C21 wsClients is never accessed by two goroutines at the same time: in  *)
(*     every interleaving of /ws handlers connecting and disconnecting     *)
(*     with the analysis engine's broadcastMessage, no assignment to or    *)
(*     delete from wsClients overlaps another assignment, delete or step   *)
(*     of the range over it, and broadcastMessage never writes to a        *)
(*     connection that has been removed from wsClients and closed.         *)
(***************************************************************************)
C21_ClientsNotShared ==
    /\ \A g \in Conns \cup {Engine} : InMapOp(ws, g) => ~Raced(ws, g)
    /\ ~ws.wroteToClosed

====
